---- MODULE Spec2Model ----
(***************************************************************************)
(* Fund rotation between Aave and Silo on Sonic (aa-fund-rotation).        *)
(*                                                                         *)
(* The module models                                                       *)
(*   - main() of src/index.ts: the rotation loop, its sleeps and its       *)
(*     try/catch;                                                          *)
(*   - SonicSmartWallet of fundMovement/SmartWallet.ts: getTokenAmount,    *)
(*     hasEnoughUSDC, the four adapter operations and the three calldata   *)
(*     builders;                                                           *)
(*   - the collaborators the code awaits: the decimals and balance reads,  *)
(*     and the chain that confirms or rejects a submitted transaction.     *)
(*                                                                         *)
(* Decimal strings are sequences of digits, so that ethers.parseUnits is   *)
(* modelled by what it does to the string and 18-decimals values need no   *)
(* machine integer.  Base-unit amounts of the rotation itself (at most     *)
(* 10^8) are integers.                                                     *)
(***************************************************************************)
EXTENDS Integers, Sequences, FiniteSets, TLC

VARIABLES
    pc,           \* main(): the statement control is at
    i,            \* main(): the loop index
    handles,      \* the wallet's contract handles that are initialised
    thrown,       \* the error raised by the failing call, NoError if none
    logged,       \* the error main()'s catch wrote to console.error
    mainResult,   \* main()'s promise: "pending", "resolved" or "rejected"
    mainError,    \* the error main()'s promise rejected with
    cycleCalls,   \* adapter calls issued in the current loop iteration
    allCalls,     \* adapter calls issued in the whole run, by name
    lastCall,     \* what the most recent adapter call read, built and did
    inflight,     \* the transaction awaiting the chain's answer
    nSubmitted,   \* number of sendTransaction / sendBatchTransaction calls
    slept,        \* seconds of the most recent sleep, 0 before any
    tokenDecimals,\* chain: decimals() of the USDC token
    sharesPerAsset,\* chain: bUSDC shares minted per USDC base unit
    usdcBal,      \* chain: the account's USDC balance
    aavePos,      \* chain: the account's position in Aave
    siloShares,   \* chain: the account's bUSDC balance
    routerUsdc,   \* chain: USDC held by the Silo router
    cpc,          \* conversion harness: "idle", "ready" or "done"
    cAmount,      \* conversion harness: the amount string
    cDecimals,    \* conversion harness: the token's decimals
    cLookupOk,    \* conversion harness: whether decimals() answers
    cResult       \* conversion harness: what getTokenAmount returned

vars == <<pc, i, handles, thrown, logged, mainResult, mainError, cycleCalls,
          allCalls, lastCall, inflight, nSubmitted, slept, tokenDecimals,
          sharesPerAsset, usdcBal, aavePos, siloShares, routerUsdc,
          cpc, cAmount, cDecimals, cLookupOk, cResult>>

mainVars == <<pc, i, handles, thrown, logged, mainResult, mainError,
              cycleCalls, allCalls, lastCall, inflight, nSubmitted, slept,
              tokenDecimals, sharesPerAsset, usdcBal, aavePos, siloShares,
              routerUsdc>>

convVars == <<cpc, cAmount, cDecimals, cLookupOk, cResult>>

-----------------------------------------------------------------------------
(* Bounds of the model.                                                    *)

\* Longest integer part of an amount string in the conversion harness.
MaxWholeLen == 2
\* Most zeros put before or after the significant fraction digits.
MaxFracLen == 19

-----------------------------------------------------------------------------
(* Program constants.                                                      *)

ROTATE_DURATION == 15
cycles == 10
FALLBACK_DECIMALS == 6
\* AMOUNT = "1"
AMOUNT == [whole |-> <<1>>, frac |-> <<>>]
SILO_COLLATERAL == "1"
refferalCode == "0"

USDC_TOKEN == "USDC_TOKEN"
B_USDC_TOKEN == "B_USDC_TOKEN"
AAVE == "AAVE"
SILO == "SILO"
\* smartWalletInstance.getAccount().address
ACCOUNT == "ACCOUNT"

-----------------------------------------------------------------------------
(* Decimal strings.                                                        *)

Zeros(n) == [k \in 1..n |-> 0]

RECURSIVE Strip(_)
\* BigInt(digits).toString(): no leading zero, "0" for zero.
Strip(s) ==
    IF Len(s) <= 1 THEN (IF s = <<>> THEN <<0>> ELSE s)
    ELSE IF Head(s) = 0 THEN Strip(Tail(s)) ELSE s

RECURSIVE DigitsToNat(_)
DigitsToNat(s) ==
    IF s = <<>> THEN 0
    ELSE 10 * DigitsToNat(SubSeq(s, 1, Len(s) - 1)) + s[Len(s)]

\* FixedNumber.fromString accepts the string: it has a digit, and every
\* fraction digit past `d` is a zero ("too many decimals for format").
ParseAccepts(amount, d) ==
    /\ Len(amount.whole) + Len(amount.frac) > 0
    /\ \A k \in (d + 1)..Len(amount.frac) : amount.frac[k] = 0

\* ethers.parseUnits(amount, d).toString(), for a string it accepts: the
\* fraction is padded with zeros to d digits, cut to d digits, and appended
\* to the integer part.
ParseUnits(amount, d) ==
    LET whole == IF amount.whole = <<>> THEN <<0>> ELSE amount.whole
        padded == amount.frac \o Zeros(d - Len(amount.frac))
    IN  Strip(whole \o SubSeq(padded, 1, d))

RECURSIVE NatToDigits(_)
\* balance.toString(): the decimal digits of a non-negative integer.
NatToDigits(n) ==
    IF n < 10 THEN <<n>> ELSE Append(NatToDigits(n \div 10), n % 10)

RECURSIVE DropTrailingZeros(_)
\* The fraction as FixedNumber prints it: trailing zeros removed, one digit
\* kept ("1.0").
DropTrailingZeros(s) ==
    IF Len(s) <= 1 THEN (IF s = <<>> THEN <<0>> ELSE s)
    ELSE IF s[Len(s)] = 0 THEN DropTrailingZeros(SubSeq(s, 1, Len(s) - 1))
    ELSE s

\* ethers.formatUnits(digits, d): the value divided by 10^d as a decimal
\* string, an integer part and a fraction part that is never empty.
FormatUnits(digits, d) ==
    LET padded == Zeros(d + 1 - Len(digits)) \o digits
        cut == Len(padded) - d
    IN  [whole |-> Strip(SubSeq(padded, 1, cut)),
         frac |-> DropTrailingZeros(SubSeq(padded, cut + 1, Len(padded)))]

ConversionError == [ok |-> FALSE, value |-> <<>>]

GetTokenAmountFixed6(amount, lookupOk, d) ==
    IF ParseAccepts(amount, FALLBACK_DECIMALS)
    THEN [ok |-> TRUE, value |-> ParseUnits(amount, FALLBACK_DECIMALS)]
    ELSE ConversionError

GetTokenAmountNoFallback(amount, lookupOk, d) ==
    IF lookupOk /\ ParseAccepts(amount, d)
    THEN [ok |-> TRUE, value |-> ParseUnits(amount, d)]
    ELSE ConversionError

\* getTokenAmount: decimals() then parseUnits inside the try; any throw of
\* either lands in the catch, which parses with 6 decimals and lets a throw
\* of that second parse escape.
GetTokenAmount(amount, lookupOk, d) ==
    IF lookupOk /\ ParseAccepts(amount, d)
    THEN [ok |-> TRUE, value |-> ParseUnits(amount, d)]
    ELSE IF ParseAccepts(amount, FALLBACK_DECIMALS)
    THEN [ok |-> TRUE, value |-> ParseUnits(amount, FALLBACK_DECIMALS)]
    ELSE ConversionError

-----------------------------------------------------------------------------
(* Errors, by the message the code raises them with.                       *)

NoError == "none"
ErrWalletInit == "Error initializing smart wallet"
ErrGuardNotInit == "Smart wallet or USDC contract not initialized"
ErrWalletNotInit == "Smart wallet not initialized"
ErrUsdcNotInit == "USDC contract not initialized"
ErrAaveNotInit == "Contract 1 not initialized"
ErrSiloNotInit == "Contract 2 not initialized"
ErrInsufficientAave == "Insufficient USDC balance for Aave supply"
ErrInsufficientSilo == "Insufficient USDC balance for Silo deposit"
ErrConversion == "parseUnits: too many decimals for format"
ErrBalanceRead == "balanceOf failed"
ErrSubmission == "transaction rejected or reverted"

InsufficientErrors == {ErrInsufficientAave, ErrInsufficientSilo}

\* The private fields of SonicSmartWallet that hold a handle.
smartWalletInstance == "smartWalletInstance"
usdcContract == "usdcContract"
aaveContract == "aaveContract"
siloContract == "siloContract"
siloBusdContract == "siloBusdContract"
ContractHandles == {usdcContract, aaveContract, siloContract, siloBusdContract}

-----------------------------------------------------------------------------
(* Transactions.                                                           *)

NoTx == [op |-> "none", kind |-> "none", steps |-> <<>>]

EmptyCalldata == [fn |-> ""]

\* generateTransferFromCalldata: encodeFunctionData("transferFrom",
\* [from, to, amount]), "" when the encoding throws.
generateTransferFromCalldata(from, to, amount, encodes) ==
    IF encodes
    THEN [fn |-> "transferFrom", from |-> from, to |-> to, amount |-> amount]
    ELSE EmptyCalldata

\* generateApproveCalldata: encodeFunctionData("approve",
\* [owner, spender, amount]), "" when the encoding throws.
generateApproveCalldata(owner, spender, amount, encodes) ==
    IF encodes
    THEN [fn |-> "approve", owner |-> owner, spender |-> spender,
          amount |-> amount]
    ELSE EmptyCalldata

\* generateDepositCalldata: encodeFunctionData("deposit",
\* [borrowedAsset, amount, collateral]), "" when the encoding throws.
generateDepositCalldata(borrowedAsset, amount, collateral, encodes) ==
    IF encodes
    THEN [fn |-> "deposit", borrowedAsset |-> borrowedAsset,
          amount |-> amount, collateral |-> collateral]
    ELSE EmptyCalldata

ApproveStep(spender, amount) ==
    [contract |-> usdcContract, method |-> "approve", spender |-> spender,
     amount |-> amount]

AaveSupplyBatchSwapped(amountDecimals, account) ==
    <<[contract |-> aaveContract, method |-> "supply",
       asset |-> USDC_TOKEN, amount |-> amountDecimals,
       onBehalfOf |-> account, referralCode |-> refferalCode],
      ApproveStep(AAVE, amountDecimals)>>

\* approveAndSupplyToAave: combinedTransaction =
\* [approveTransaction, depositTransaction].
AaveSupplyBatch(amountDecimals, account) ==
    <<ApproveStep(AAVE, amountDecimals),
      [contract |-> aaveContract, method |-> "supply",
       asset |-> USDC_TOKEN, amount |-> amountDecimals,
       onBehalfOf |-> account, referralCode |-> refferalCode]>>

AaveWithdrawTxToToken(amountDecimals, account) ==
    <<[contract |-> aaveContract, method |-> "withdraw",
       asset |-> USDC_TOKEN, amount |-> amountDecimals, to |-> USDC_TOKEN]>>

\* withdrawFromAave: withdrawTransaction.
AaveWithdrawTx(amountDecimals, account) ==
    <<[contract |-> aaveContract, method |-> "withdraw",
       asset |-> USDC_TOKEN, amount |-> amountDecimals, to |-> account]>>

\* approveAndDepositToSilo: finalCalldata, the three pushes in order.
SiloCalldata(amountDecimals, enc) ==
    <<generateTransferFromCalldata(USDC_TOKEN, SILO, amountDecimals, enc[1]),
      generateApproveCalldata(USDC_TOKEN, B_USDC_TOKEN, amountDecimals,
                              enc[2]),
      generateDepositCalldata(B_USDC_TOKEN, amountDecimals, SILO_COLLATERAL,
                              enc[3])>>

\* approveAndDepositToSilo: combinedTransaction =
\* [approveTransaction, multicallTransaction].
SiloDepositBatch(amountDecimals, enc) ==
    <<ApproveStep(SILO, amountDecimals),
      [contract |-> siloContract, method |-> "multicall",
       data |-> SiloCalldata(amountDecimals, enc)]>>

SiloRedeemTxOfAmount(sharesBalance, account) ==
    <<[contract |-> siloBusdContract, method |-> "redeem",
       shares |-> DigitsToNat(ParseUnits(AMOUNT, FALLBACK_DECIMALS)),
       receiver |-> account, owner |-> account,
       collateral |-> SILO_COLLATERAL]>>

\* withdrawFromSilo: withdrawTransaction, shares = the balance just read.
SiloRedeemTx(sharesBalance, account) ==
    <<[contract |-> siloBusdContract, method |-> "redeem",
       shares |-> sharesBalance, receiver |-> account, owner |-> account,
       collateral |-> SILO_COLLATERAL]>>

-----------------------------------------------------------------------------
(* The balance guard and the four adapter operations.  Each operator is    *)
(* the operation up to its submission: it yields the error it throws, or   *)
(* the transaction it hands to sendTransaction / sendBatchTransaction.     *)

BalanceCoversStrict(balance, required) == balance > required

\* hasEnoughUSDC: BigInt(balance.toString()) >= BigInt(requiredAmount).
BalanceCovers(balance, required) == balance >= required

NoAmount == [whole |-> <<>>, frac |-> <<>>]

\* Nothing logged by the guard.
NoReport == [required |-> NoAmount, available |-> NoAmount]

NoGuard ==
    [ran |-> FALSE, balance |-> 0, required |-> 0, result |-> FALSE,
     report |-> NoReport]

InsufficientReportShortfall(amount, balance, required, d) ==
    [required |-> amount,
     available |-> FormatUnits(NatToDigits(required - balance), d)]

\* hasEnoughUSDC's console.log when the balance does not cover the amount:
\* "Required: ${amount} USDC, Available: ${formatUnits(balance, 6)} USDC".
InsufficientReport(amount, balance, required, d) ==
    [required |-> amount,
     available |-> FormatUnits(NatToDigits(balance), FALLBACK_DECIMALS)]

\* What the guard logs for its comparison: nothing when it passes.
GuardReport(amount, balance, required, d) ==
    IF BalanceCovers(balance, required) THEN NoReport
    ELSE InsufficientReport(amount, balance, required, d)

HasEnoughUSDCReadFailureIsFalse(amount, lookupOk, readOk) ==
    IF ~(smartWalletInstance \in handles /\ usdcContract \in handles)
    THEN [error |-> ErrGuardNotInit, guard |-> NoGuard]
    ELSE LET conv == GetTokenAmount(amount, lookupOk, tokenDecimals)
             seen == IF readOk THEN usdcBal ELSE 0
         IN  IF ~conv.ok
             THEN [error |-> ErrConversion, guard |-> NoGuard]
             ELSE [error |-> NoError,
                   guard |-> [ran |-> TRUE,
                              balance |-> seen,
                              required |-> DigitsToNat(conv.value),
                              result |-> readOk /\ BalanceCovers(seen,
                                            DigitsToNat(conv.value)),
                              report |-> GuardReport(amount, seen,
                                            DigitsToNat(conv.value),
                                            IF lookupOk THEN tokenDecimals
                                            ELSE FALLBACK_DECIMALS)]]

\* hasEnoughUSDC(amount): the handle check, the conversion, the balance
\* read and the comparison; its catch rethrows.  getAccount() yields the
\* account whenever connect() has succeeded, so the !account throw of this
\* and of the four operations has no state to fire in.
HasEnoughUSDC(amount, lookupOk, readOk) ==
    IF ~(smartWalletInstance \in handles /\ usdcContract \in handles)
    THEN [error |-> ErrGuardNotInit, guard |-> NoGuard]
    ELSE LET conv == GetTokenAmount(amount, lookupOk, tokenDecimals)
         IN  IF ~conv.ok
             THEN [error |-> ErrConversion, guard |-> NoGuard]
             ELSE IF ~readOk
             THEN [error |-> ErrBalanceRead, guard |-> NoGuard]
             ELSE [error |-> NoError,
                   guard |-> [ran |-> TRUE,
                              balance |-> usdcBal,
                              required |-> DigitsToNat(conv.value),
                              result |-> BalanceCovers(usdcBal,
                                            DigitsToNat(conv.value)),
                              report |-> GuardReport(amount, usdcBal,
                                            DigitsToNat(conv.value),
                                            IF lookupOk THEN tokenDecimals
                                            ELSE FALLBACK_DECIMALS)]]

Throws(err, guard, shares) ==
    [error |-> err, guard |-> guard, sharesRead |-> shares, tx |-> NoTx]

Submits(op, kind, steps, guard, shares) ==
    [error |-> NoError, guard |-> guard, sharesRead |-> shares,
     tx |-> [op |-> op, kind |-> kind, steps |-> steps]]

GuardBlocksNever(hasBalance) == FALSE

\* if (!hasBalance) throw new Error("Insufficient USDC balance ...")
GuardBlocks(hasBalance) == ~hasBalance

\* approveAndSupplyToAave(amount).
ApproveAndSupplyToAave(amount, lookup1, readOk, lookup2) ==
    LET g == HasEnoughUSDC(amount, lookup1, readOk)
        conv == GetTokenAmount(amount, lookup2, tokenDecimals)
    IN  IF g.error # NoError THEN Throws(g.error, g.guard, -1)
        ELSE IF GuardBlocks(g.guard.result)
        THEN Throws(ErrInsufficientAave, g.guard, -1)
        ELSE IF smartWalletInstance \notin handles
        THEN Throws(ErrWalletNotInit, g.guard, -1)
        ELSE IF usdcContract \notin handles
        THEN Throws(ErrUsdcNotInit, g.guard, -1)
        ELSE IF aaveContract \notin handles
        THEN Throws(ErrAaveNotInit, g.guard, -1)
        ELSE IF ~conv.ok THEN Throws(ErrConversion, g.guard, -1)
        ELSE Submits("approveAndSupplyToAave", "batch",
                     AaveSupplyBatch(DigitsToNat(conv.value), ACCOUNT),
                     g.guard, -1)

\* withdrawFromAave(amount).
WithdrawFromAave(amount, lookupOk) ==
    LET conv == GetTokenAmount(amount, lookupOk, tokenDecimals)
    IN  IF smartWalletInstance \notin handles
        THEN Throws(ErrWalletNotInit, NoGuard, -1)
        ELSE IF aaveContract \notin handles
        THEN Throws(ErrAaveNotInit, NoGuard, -1)
        ELSE IF ~conv.ok THEN Throws(ErrConversion, NoGuard, -1)
        ELSE Submits("withdrawFromAave", "single",
                     AaveWithdrawTx(DigitsToNat(conv.value), ACCOUNT),
                     NoGuard, -1)

\* approveAndDepositToSilo(amount).  `enc` tells, for each of the three
\* calldata builders, whether its encodeFunctionData succeeds.
ApproveAndDepositToSilo(amount, lookup1, readOk, lookup2, enc) ==
    LET g == HasEnoughUSDC(amount, lookup1, readOk)
        conv == GetTokenAmount(amount, lookup2, tokenDecimals)
    IN  IF g.error # NoError THEN Throws(g.error, g.guard, -1)
        ELSE IF GuardBlocks(g.guard.result)
        THEN Throws(ErrInsufficientSilo, g.guard, -1)
        ELSE IF smartWalletInstance \notin handles
        THEN Throws(ErrWalletNotInit, g.guard, -1)
        ELSE IF usdcContract \notin handles
        THEN Throws(ErrUsdcNotInit, g.guard, -1)
        ELSE IF siloContract \notin handles
        THEN Throws(ErrSiloNotInit, g.guard, -1)
        ELSE IF ~conv.ok THEN Throws(ErrConversion, g.guard, -1)
        ELSE Submits("approveAndDepositToSilo", "batch",
                     SiloDepositBatch(DigitsToNat(conv.value), enc),
                     g.guard, -1)

\* withdrawFromSilo().  The bUSDC handle is not checked: balanceOf on a
\* missing handle throws, as it does when the read fails.
WithdrawFromSilo(readOk) ==
    IF smartWalletInstance \notin handles
    THEN Throws(ErrWalletNotInit, NoGuard, -1)
    ELSE IF siloContract \notin handles
    THEN Throws(ErrSiloNotInit, NoGuard, -1)
    ELSE IF siloBusdContract \notin handles \/ ~readOk
    THEN Throws(ErrBalanceRead, NoGuard, -1)
    ELSE Submits("withdrawFromSilo", "single",
                 SiloRedeemTx(siloShares, ACCOUNT), NoGuard, siloShares)

-----------------------------------------------------------------------------
(* The chain: a submitted transaction runs its steps in order against the  *)
(* balances and either all of them apply or none does.                     *)

ChainNow ==
    [ok |-> TRUE, usdc |-> usdcBal, aave |-> aavePos, shares |-> siloShares,
     router |-> routerUsdc, allowAave |-> 0, allowSilo |-> 0,
     allowSiloAsset |-> 0]

Reverted(s) == [s EXCEPT !.ok = FALSE]

\* One pre-encoded call of the router's multicall; empty calldata runs
\* nothing.
RunInner(c, s) ==
    IF ~s.ok \/ c.fn = "" THEN s
    ELSE IF c.fn = "transferFrom"
    THEN IF c.amount <= s.allowSilo /\ c.amount <= s.usdc
         THEN [s EXCEPT !.usdc = @ - c.amount, !.router = @ + c.amount,
                        !.allowSilo = @ - c.amount]
         ELSE Reverted(s)
    ELSE IF c.fn = "approve"
    THEN [s EXCEPT !.allowSiloAsset = c.amount]
    ELSE IF c.amount > 0 /\ c.amount <= s.allowSiloAsset
            /\ c.amount <= s.router
    THEN [s EXCEPT !.router = @ - c.amount,
                   !.allowSiloAsset = @ - c.amount,
                   !.shares = @ + c.amount * sharesPerAsset]
    ELSE Reverted(s)

RECURSIVE RunInners(_, _)
RunInners(cs, s) ==
    IF cs = <<>> THEN s ELSE RunInners(Tail(cs), RunInner(Head(cs), s))

\* One step of a transaction.
RunStep(t, s) ==
    IF ~s.ok THEN s
    ELSE IF t.method = "approve"
    THEN IF t.spender = AAVE THEN [s EXCEPT !.allowAave = t.amount]
         ELSE [s EXCEPT !.allowSilo = t.amount]
    ELSE IF t.method = "supply"
    THEN IF t.amount > 0 /\ t.amount <= s.allowAave /\ t.amount <= s.usdc
         THEN [s EXCEPT !.usdc = @ - t.amount, !.aave = @ + t.amount,
                        !.allowAave = @ - t.amount]
         ELSE Reverted(s)
    ELSE IF t.method = "withdraw"
    THEN IF t.amount > 0 /\ t.amount <= s.aave
         THEN [s EXCEPT !.aave = @ - t.amount, !.usdc = @ + t.amount]
         ELSE Reverted(s)
    ELSE IF t.method = "redeem"
    THEN IF t.shares <= s.shares
         THEN [s EXCEPT !.shares = @ - t.shares,
                        !.usdc = @ + (t.shares \div sharesPerAsset)]
         ELSE Reverted(s)
    ELSE RunInners(t.data, s)

RECURSIVE RunSteps(_, _)
RunSteps(ts, s) ==
    IF ts = <<>> THEN s ELSE RunSteps(Tail(ts), RunStep(Head(ts), s))

Executed(tx) == RunSteps(tx.steps, ChainNow)

-----------------------------------------------------------------------------
(* main(): the rotation loop.                                              *)

CallPcs == {"withdrawSilo", "supplyAave", "withdrawAave", "depositSilo"}

AwaitOfNotAwaited ==
    [withdrawSilo |-> "supplyAave", supplyAave |-> "hold1",
     withdrawAave |-> "hold2", depositSilo |-> "hold3"]

\* await wallet.<operation>(...): main() is suspended until the call's
\* promise settles.
AwaitOf ==
    [withdrawSilo |-> "awaitWithdrawSilo", supplyAave |-> "awaitSupplyAave",
     withdrawAave |-> "awaitWithdrawAave", depositSilo |-> "awaitDepositSilo"]

CallOf ==
    [awaitWithdrawSilo |-> "withdrawSilo", awaitSupplyAave |-> "supplyAave",
     awaitWithdrawAave |-> "withdrawAave", awaitDepositSilo |-> "depositSilo"]

AfterCallNoHold ==
    [awaitWithdrawSilo |-> "supplyAave", awaitSupplyAave |-> "withdrawAave",
     awaitWithdrawAave |-> "hold2", awaitDepositSilo |-> "hold3"]

\* The statement after each awaited adapter call.
AfterCall ==
    [awaitWithdrawSilo |-> "supplyAave", awaitSupplyAave |-> "hold1",
     awaitWithdrawAave |-> "hold2", awaitDepositSilo |-> "hold3"]

AwaitPcs == DOMAIN CallOf

AdapterOps == {"withdrawFromSilo", "approveAndSupplyToAave",
               "withdrawFromAave", "approveAndDepositToSilo"}

\* What the collaborators answered during one adapter call: whether the
\* balance read answered, and whether decimals() answered for the guard's
\* conversion (lookup1) and for the operation's own conversion (lookup2).
Env(readOk, lookup1, lookup2) ==
    [readOk |-> readOk, lookup1 |-> lookup1, lookup2 |-> lookup2]

NoCall ==
    [op |-> "none", error |-> NoError, guard |-> NoGuard, sharesRead |-> -1,
     tx |-> NoTx, confirmed |-> FALSE, env |-> Env(TRUE, TRUE, TRUE),
     cycle |-> 0]

FirstCallOfCycleNoUnwind(idx) == "supplyAave"

\* if (i > 0) { await wallet.withdrawFromSilo(); } then the supply.
FirstCallOfCycle(idx) == IF idx > 0 THEN "withdrawSilo" ELSE "supplyAave"

LoopContinuesOneMore(idx) == idx <= cycles

\* for (let i = 0; i < cycles; i++): the loop test.
LoopContinues(idx) == idx < cycles

OnThrowRetry(at) == at

OnThrowCarriesOn(at) ==
    IF at \in CallPcs THEN AfterCall[AwaitOf[at]] ELSE "caught"

\* A throw inside the try block leaves the loop for the catch clause.
OnThrow(at) == "caught"

MainCatchRethrows(err) ==
    [logged |-> err, result |-> "rejected", error |-> err]

\* catch (err) { console.error("Error during fund rotation:", err); }
\* and main() returns.
MainCatch(err) == [logged |-> err, result |-> "resolved", error |-> NoError]

InitialBalances ==
    {0, 500000, 999999, 1000000, 2000000, 100000000, 150000000}

TokenDecimalsChoices == {6, 8}

SharesPerAssetChoices == {1, 10}

ConvIdle ==
    /\ cpc = "idle"
    /\ cAmount = AMOUNT
    /\ cDecimals = FALLBACK_DECIMALS
    /\ cLookupOk = TRUE
    /\ cResult = ConversionError

Init ==
    /\ pc = "init"
    /\ i = 0
    /\ handles \in SUBSET ContractHandles
    /\ thrown = NoError
    /\ logged = NoError
    /\ mainResult = "pending"
    /\ mainError = NoError
    /\ cycleCalls = <<>>
    /\ allCalls = [op \in AdapterOps |-> 0]
    /\ lastCall = NoCall
    /\ inflight = NoTx
    /\ nSubmitted = 0
    /\ slept = 0
    /\ tokenDecimals \in TokenDecimalsChoices
    /\ sharesPerAsset \in SharesPerAssetChoices
    /\ usdcBal \in InitialBalances
    /\ aavePos = 0
    /\ siloShares = 0
    /\ routerUsdc = 0
    /\ ConvIdle

chainVars == <<tokenDecimals, sharesPerAsset, usdcBal, aavePos, siloShares,
               routerUsdc>>

\* const wallet = new SonicSmartWallet(); await wallet.initializeSmartWallet();
InitializeSmartWallet ==
    /\ pc = "init"
    /\ \/ /\ handles' = handles \cup {smartWalletInstance}
          /\ pc' = "loopTest"
          /\ thrown' = thrown
       \/ /\ handles' = handles
          /\ thrown' = ErrWalletInit
          /\ pc' = OnThrow("init")
    /\ UNCHANGED <<i, logged, mainResult, mainError, cycleCalls, allCalls,
                   lastCall, inflight, nSubmitted, slept>>
    /\ UNCHANGED chainVars
    /\ UNCHANGED convVars

\* for (...; i < cycles; ...) { : the test passes and the body starts.
EnterCycle ==
    /\ pc = "loopTest"
    /\ LoopContinues(i)
    /\ cycleCalls' = <<>>
    /\ pc' = FirstCallOfCycle(i)
    /\ UNCHANGED <<i, handles, thrown, logged, mainResult, mainError,
                   allCalls, lastCall, inflight, nSubmitted, slept>>
    /\ UNCHANGED chainVars
    /\ UNCHANGED convVars

\* The loop test fails: "Fund rotation completed successfully!".
Complete ==
    /\ pc = "loopTest"
    /\ ~LoopContinues(i)
    /\ pc' = "completed"
    /\ mainResult' = "resolved"
    /\ UNCHANGED <<i, handles, thrown, logged, mainError, cycleCalls,
                   allCalls, lastCall, inflight, nSubmitted, slept>>
    /\ UNCHANGED chainVars
    /\ UNCHANGED convVars

\* An adapter call runs to its throw or to its submission.
Issue(op, out, env) ==
    /\ cycleCalls' = Append(cycleCalls, op)
    /\ allCalls' = [allCalls EXCEPT ![op] = @ + 1]
    /\ lastCall' = [op |-> op, error |-> out.error, guard |-> out.guard,
                    sharesRead |-> out.sharesRead, tx |-> out.tx,
                    confirmed |-> FALSE, env |-> env, cycle |-> i]
    /\ IF out.error = NoError
       THEN /\ inflight' = out.tx
            /\ nSubmitted' = nSubmitted + 1
            /\ pc' = AwaitOf[pc]
            /\ thrown' = thrown
       ELSE /\ inflight' = inflight
            /\ nSubmitted' = nSubmitted
            /\ pc' = OnThrow(pc)
            /\ thrown' = out.error
    /\ UNCHANGED <<i, handles, logged, mainResult, mainError, slept>>
    /\ UNCHANGED chainVars
    /\ UNCHANGED convVars

\* await wallet.withdrawFromSilo();
CallWithdrawFromSilo ==
    /\ pc = "withdrawSilo"
    /\ \E readOk \in BOOLEAN :
          Issue("withdrawFromSilo", WithdrawFromSilo(readOk),
                Env(readOk, TRUE, TRUE))

\* await wallet.approveAndSupplyToAave(AMOUNT);
CallApproveAndSupplyToAave ==
    /\ pc = "supplyAave"
    /\ \E lookup1, readOk, lookup2 \in BOOLEAN :
          Issue("approveAndSupplyToAave",
                ApproveAndSupplyToAave(AMOUNT, lookup1, readOk, lookup2),
                Env(readOk, lookup1, lookup2))

\* await wallet.withdrawFromAave(AMOUNT);
CallWithdrawFromAave ==
    /\ pc = "withdrawAave"
    /\ \E lookupOk \in BOOLEAN :
          Issue("withdrawFromAave", WithdrawFromAave(AMOUNT, lookupOk),
                Env(TRUE, TRUE, lookupOk))

\* await wallet.approveAndDepositToSilo(AMOUNT);
CallApproveAndDepositToSilo ==
    /\ pc = "depositSilo"
    /\ \E lookup1, readOk, lookup2 \in BOOLEAN :
       \E enc \in [1..3 -> BOOLEAN] :
          Issue("approveAndDepositToSilo",
                ApproveAndDepositToSilo(AMOUNT, lookup1, readOk, lookup2,
                                        enc),
                Env(readOk, lookup1, lookup2))

\* The chain confirms the transaction: its steps apply, the adapter call
\* returns the transaction hash.
ConfirmTx ==
    /\ pc \in AwaitPcs
    /\ Executed(inflight).ok
    /\ usdcBal' = Executed(inflight).usdc
    /\ aavePos' = Executed(inflight).aave
    /\ siloShares' = Executed(inflight).shares
    /\ routerUsdc' = Executed(inflight).router
    /\ lastCall' = [lastCall EXCEPT !.confirmed = TRUE]
    /\ inflight' = NoTx
    /\ pc' = AfterCall[pc]
    /\ UNCHANGED <<i, handles, thrown, logged, mainResult, mainError,
                   cycleCalls, allCalls, nSubmitted, slept, tokenDecimals,
                   sharesPerAsset>>
    /\ UNCHANGED convVars

\* The chain rejects or reverts the transaction: nothing applies, the
\* adapter call's catch logs the error and rethrows it.
RejectTx ==
    /\ pc \in AwaitPcs
    /\ thrown' = ErrSubmission
    /\ lastCall' = [lastCall EXCEPT !.error = ErrSubmission]
    /\ inflight' = NoTx
    /\ pc' = OnThrow(CallOf[pc])
    /\ UNCHANGED <<i, handles, logged, mainResult, mainError, cycleCalls,
                   allCalls, nSubmitted, slept>>
    /\ UNCHANGED chainVars
    /\ UNCHANGED convVars

\* await sleep(ROTATE_DURATION * 1000); after the supply.
HoldAfterSupply ==
    /\ pc = "hold1"
    /\ slept' = ROTATE_DURATION
    /\ cycleCalls' = Append(cycleCalls, "sleep")
    /\ pc' = "withdrawAave"
    /\ UNCHANGED <<i, handles, thrown, logged, mainResult, mainError,
                   allCalls, lastCall, inflight, nSubmitted>>
    /\ UNCHANGED chainVars
    /\ UNCHANGED convVars

\* await sleep(2 * 1000); after the withdrawal from Aave.
HoldAfterWithdraw ==
    /\ pc = "hold2"
    /\ slept' = 2
    /\ cycleCalls' = Append(cycleCalls, "sleep")
    /\ pc' = "depositSilo"
    /\ UNCHANGED <<i, handles, thrown, logged, mainResult, mainError,
                   allCalls, lastCall, inflight, nSubmitted>>
    /\ UNCHANGED chainVars
    /\ UNCHANGED convVars

\* if (i < cycles - 1) { await sleep(ROTATE_DURATION * 1000); } and i++.
EndCycle ==
    /\ pc = "hold3"
    /\ IF i < cycles - 1
       THEN /\ slept' = ROTATE_DURATION
            /\ cycleCalls' = Append(cycleCalls, "sleep")
       ELSE /\ slept' = slept
            /\ cycleCalls' = cycleCalls
    /\ i' = i + 1
    /\ pc' = "loopTest"
    /\ UNCHANGED <<handles, thrown, logged, mainResult, mainError,
                   allCalls, lastCall, inflight, nSubmitted>>
    /\ UNCHANGED chainVars
    /\ UNCHANGED convVars

\* The catch clause of main().
Catch ==
    /\ pc = "caught"
    /\ logged' = MainCatch(thrown).logged
    /\ mainResult' = MainCatch(thrown).result
    /\ mainError' = MainCatch(thrown).error
    /\ pc' = "ended"
    /\ UNCHANGED <<i, handles, thrown, cycleCalls, allCalls, lastCall,
                   inflight, nSubmitted, slept>>
    /\ UNCHANGED chainVars
    /\ UNCHANGED convVars

Next ==
    \/ InitializeSmartWallet
    \/ EnterCycle
    \/ Complete
    \/ CallWithdrawFromSilo
    \/ CallApproveAndSupplyToAave
    \/ CallWithdrawFromAave
    \/ CallApproveAndDepositToSilo
    \/ ConfirmTx
    \/ RejectTx
    \/ HoldAfterSupply
    \/ HoldAfterWithdraw
    \/ EndCycle
    \/ Catch

Spec == Init /\ [][Next]_vars

-----------------------------------------------------------------------------
(* getTokenAmount on its own: the amount string, the token's decimals and  *)
(* the outcome of the decimals() read are drawn from bounded sets.         *)

HarnessDigits == {0, 1, 9}

SignificantFractions == {<<>>, <<5>>, <<1, 2>>, <<9, 0, 9>>}

WholeParts ==
    UNION {[1..n -> HarnessDigits] : n \in 0..MaxWholeLen}

\* Fractions: zeros, significant digits, zeros; up to MaxFracLen digits.
FractionParts ==
    {Zeros(a) \o s \o Zeros(b) :
        <<a, s, b>> \in
            {t \in (0..MaxFracLen) \X SignificantFractions \X (0..MaxFracLen) :
                t[1] + Len(t[2]) + t[3] <= MaxFracLen}}

HarnessDecimals == {2, 6, 8, 18}

MainOff ==
    /\ pc = "off"
    /\ i = 0
    /\ handles = {}
    /\ thrown = NoError
    /\ logged = NoError
    /\ mainResult = "pending"
    /\ mainError = NoError
    /\ cycleCalls = <<>>
    /\ allCalls = [op \in AdapterOps |-> 0]
    /\ lastCall = NoCall
    /\ inflight = NoTx
    /\ nSubmitted = 0
    /\ slept = 0
    /\ tokenDecimals = FALLBACK_DECIMALS
    /\ sharesPerAsset = 1
    /\ usdcBal = 0
    /\ aavePos = 0
    /\ siloShares = 0
    /\ routerUsdc = 0

ConvInit ==
    /\ MainOff
    /\ cpc = "ready"
    /\ cAmount \in [whole : WholeParts, frac : FractionParts]
    /\ cDecimals \in HarnessDecimals
    /\ cLookupOk \in BOOLEAN
    /\ cResult = ConversionError

\* await this.getTokenAmount(amount, tokenAddress)
ConvCall ==
    /\ cpc = "ready"
    /\ cResult' = GetTokenAmount(cAmount, cLookupOk, cDecimals)
    /\ cpc' = "done"
    /\ UNCHANGED <<cAmount, cDecimals, cLookupOk>>
    /\ UNCHANGED mainVars

ConvNext == ConvCall

SpecConv == ConvInit /\ [][ConvNext]_vars

-----------------------------------------------------------------------------
(* Properties.                                                             *)

\* Control is inside iteration i of the loop, or left it by a throw.
InCycle == pc \in CallPcs \cup AwaitPcs \cup {"hold1", "hold2", "hold3"}

FailedPcs == {"caught", "ended"}

AdapterCallsOf(trace) == SelectSeq(trace, LAMBDA e : e \in AdapterOps)

\* C1: cycle 0 issues no withdrawFromSilo before its first deposit, and
\* every cycle N > 0 issues withdrawFromSilo as its first adapter call,
\* before that cycle's approveAndSupplyToAave.
C1_UnwindFirstExceptCycleZero ==
    LET calls == AdapterCallsOf(cycleCalls)
    IN  (InCycle \/ (pc \in FailedPcs /\ lastCall.op # "none")) =>
          /\ i = 0 =>
                \A k \in 1..Len(calls) : calls[k] # "withdrawFromSilo"
          /\ i > 0 =>
                /\ pc # "withdrawSilo" =>
                      calls # <<>> /\ calls[1] = "withdrawFromSilo"
                /\ pc = "withdrawSilo" => calls = <<>>
                /\ \A k \in 1..Len(calls) :
                      calls[k] = "approveAndSupplyToAave" => k > 1

C1_Witness ==
    /\ i > 0
    /\ Len(cycleCalls) >= 2
    /\ cycleCalls[1] = "withdrawFromSilo"
    /\ cycleCalls[2] = "approveAndSupplyToAave"
    /\ lastCall.confirmed

\* C2: once an adapter call has raised an error the run is failed: control
\* is in main()'s catch or past it, and from then on no adapter call is
\* issued (the failed one is not retried) and nothing is submitted.
C2_FailureStopsTheRun ==
    [][/\ thrown' # NoError => pc' \in FailedPcs
       /\ thrown # NoError =>
            /\ allCalls' = allCalls
            /\ nSubmitted' = nSubmitted
            /\ inflight' = NoTx
            /\ thrown' = thrown]_vars

C2_Witness ==
    /\ pc = "ended"
    /\ thrown = ErrSubmission
    /\ lastCall.op = "withdrawFromAave"
    /\ allCalls["approveAndDepositToSilo"] > 0

\* C3 as stated: when an adapter call fails, main() ends in an error
\* outcome that carries the triggering error.
C3_MainRejectsWithTheError ==
    (pc = "ended" /\ lastCall.error # NoError) =>
        mainResult = "rejected" /\ mainError = lastCall.error

\* C3 as amended: when an adapter call fails, main()'s catch writes that
\* same error to the error log and main() then completes normally: its
\* promise resolves and carries no error.
C3_MainLogsTheErrorAndResolves ==
    (pc = "ended" /\ lastCall.error # NoError) =>
        /\ logged = lastCall.error
        /\ mainResult = "resolved"
        /\ mainError = NoError

C3_Witness ==
    /\ pc = "ended"
    /\ lastCall.op = "approveAndDepositToSilo"
    /\ lastCall.error = ErrInsufficientSilo
    /\ logged = ErrInsufficientSilo

\* C4: in approveAndSupplyToAave and approveAndDepositToSilo, a balance
\* below the required base-unit amount raises the insufficient-funds error
\* and nothing is submitted.
C4_InsufficientBalanceBlocksSubmission ==
    (/\ lastCall.op \in {"approveAndSupplyToAave", "approveAndDepositToSilo"}
     /\ lastCall.guard.ran
     /\ lastCall.guard.balance < lastCall.guard.required) =>
        /\ lastCall.error =
              (IF lastCall.op = "approveAndSupplyToAave"
               THEN ErrInsufficientAave ELSE ErrInsufficientSilo)
        /\ lastCall.tx = NoTx
        /\ inflight = NoTx
        /\ thrown = lastCall.error

C4_Witness ==
    /\ lastCall.op = "approveAndSupplyToAave"
    /\ lastCall.guard.ran
    /\ lastCall.guard.balance = 999999
    /\ lastCall.guard.required = 1000000
    /\ lastCall.error = ErrInsufficientAave
    /\ nSubmitted = 0

SiloDepositSubmitted ==
    lastCall.op = "approveAndDepositToSilo" /\ lastCall.tx # NoTx

\* C5: every approveAndDepositToSilo submission is one batch of exactly two
\* steps, approve(router, amount) then multicall, and the multicall holds
\* exactly three inner calls in the order transferFrom, approve, deposit.
C5_SiloBatchShape ==
    SiloDepositSubmitted =>
        LET steps == lastCall.tx.steps
        IN  /\ lastCall.tx.kind = "batch"
            /\ Len(steps) = 2
            /\ steps[1].method = "approve"
            /\ steps[1].spender = SILO
            /\ steps[2].method = "multicall"
            /\ Len(steps[2].data) = 3
            /\ steps[2].data[1].fn = "transferFrom"
            /\ steps[2].data[2].fn = "approve"
            /\ steps[2].data[3].fn = "deposit"

\* C6: if a calldata builder fails to encode, approveAndDepositToSilo
\* submits nothing: no submitted multicall holds an empty inner call.
C6_NoEmptyCalldataSubmitted ==
    SiloDepositSubmitted =>
        \A k \in 1..Len(lastCall.tx.steps[2].data) :
            lastCall.tx.steps[2].data[k] # EmptyCalldata

\* C7: every withdrawFromSilo submission is a single redeem whose shares
\* are the account's whole bUSDC balance at the time of the call, whatever
\* the rotation amount is.
C7_RedeemsFullShareBalance ==
    /\ pc = "awaitWithdrawSilo" =>
          /\ inflight.kind = "single"
          /\ Len(inflight.steps) = 1
          /\ inflight.steps[1].method = "redeem"
          /\ inflight.steps[1].shares = siloShares
          /\ lastCall.sharesRead = siloShares
    /\ (lastCall.op = "withdrawFromSilo" /\ lastCall.tx # NoTx) =>
          /\ Len(lastCall.tx.steps) = 1
          /\ lastCall.tx.steps[1].method = "redeem"
          /\ lastCall.tx.steps[1].shares = lastCall.sharesRead

C7_Witness ==
    /\ pc = "awaitWithdrawSilo"
    /\ siloShares > 0
    /\ inflight.steps[1].shares = siloShares
    /\ siloShares # DigitsToNat(ParseUnits(AMOUNT, tokenDecimals))

\* C8: every approveAndSupplyToAave submission is one batch of exactly two
\* steps in the order approve(Aave, amount), supply(token, amount,
\* recipient = account, referral = 0).
C8_AaveBatchShape ==
    (lastCall.op = "approveAndSupplyToAave" /\ lastCall.tx # NoTx) =>
        LET steps == lastCall.tx.steps
        IN  /\ lastCall.tx.kind = "batch"
            /\ Len(steps) = 2
            /\ steps[1].method = "approve"
            /\ steps[1].contract = usdcContract
            /\ steps[1].spender = AAVE
            /\ steps[2].method = "supply"
            /\ steps[2].contract = aaveContract
            /\ steps[2].asset = USDC_TOKEN
            /\ steps[2].amount = steps[1].amount
            /\ steps[2].onBehalfOf = ACCOUNT
            /\ steps[2].referralCode = "0"

C8_Witness ==
    /\ lastCall.op = "approveAndSupplyToAave"
    /\ lastCall.confirmed
    /\ lastCall.tx.steps[2].amount = 100000000
    /\ aavePos = 100000000

\* C9: hasEnoughUSDC returns false whenever balance < required and true
\* whenever balance >= required, both exact integers in base units.
C9_GuardComparesExactly ==
    lastCall.guard.ran =>
        /\ lastCall.guard.balance < lastCall.guard.required =>
              lastCall.guard.result = FALSE
        /\ lastCall.guard.balance >= lastCall.guard.required =>
              lastCall.guard.result = TRUE

C9_Witness ==
    /\ lastCall.guard.ran
    /\ lastCall.guard.balance = 1000000
    /\ lastCall.guard.required = 1000000
    /\ lastCall.guard.result = TRUE
    /\ lastCall.tx # NoTx

\* An amount string getTokenAmount is meant for: at least one digit, and no
\* more fraction digits than the token has decimals.
ValidAmount(amount, d) ==
    /\ Len(amount.whole) + Len(amount.frac) > 0
    /\ Len(amount.frac) <= d

\* C10: for a valid decimal amount and a precision P whose lookup succeeds,
\* getTokenAmount returns exactly amount * 10^P as an integer string.  With
\* k fraction digits the amount is the integer (whole ++ frac) / 10^k, so
\* the result followed by k zeros is (whole ++ frac) followed by P zeros.
C10_ExactScaling ==
    (cpc = "done" /\ cLookupOk /\ ValidAmount(cAmount, cDecimals)) =>
        /\ cResult.ok
        /\ cResult.value = Strip(cResult.value)
        /\ Strip(cResult.value \o Zeros(Len(cAmount.frac)))
              = Strip(cAmount.whole \o cAmount.frac \o Zeros(cDecimals))

C10_Witness ==
    /\ cpc = "done"
    /\ cLookupOk
    /\ cDecimals = 18
    /\ Len(cAmount.frac) = 18
    /\ cAmount.frac[18] # 0
    /\ cAmount.whole = <<1, 0>>
    /\ cResult.ok
    /\ Len(cResult.value) = 20


IsPrefix(s, t) == Len(s) <= Len(t) /\ s = SubSeq(t, 1, Len(s))

\* C11: within every cycle the adapter calls come in the order
\* approveAndSupplyToAave, withdrawFromAave, approveAndDepositToSilo; a
\* holding wait lies between the supply and the withdrawal from Aave, and a
\* holding wait follows the deposit to Silo before the next cycle's first
\* adapter call.
C11_CycleOrderAndHolds ==
    LET calls == AdapterCallsOf(cycleCalls)
        order == (IF i > 0 THEN <<"withdrawFromSilo">> ELSE <<>>)
                 \o <<"approveAndSupplyToAave", "withdrawFromAave",
                      "approveAndDepositToSilo">>
    IN  /\ (InCycle \/ (pc \in FailedPcs /\ lastCall.op # "none")) =>
              /\ IsPrefix(calls, order)
              /\ \A k \in 1..Len(cycleCalls) :
                    cycleCalls[k] = "withdrawFromAave" =>
                        /\ k > 2
                        /\ cycleCalls[k - 1] = "sleep"
                        /\ cycleCalls[k - 2] = "approveAndSupplyToAave"
        /\ pc = "withdrawAave" => slept = ROTATE_DURATION
        /\ (pc = "loopTest" /\ i > 0 /\ i < cycles) =>
              /\ Len(cycleCalls) >= 2
              /\ cycleCalls[Len(cycleCalls)] = "sleep"
              /\ cycleCalls[Len(cycleCalls) - 1] = "approveAndDepositToSilo"
              /\ slept = ROTATE_DURATION

C11_Witness ==
    /\ pc = "supplyAave"
    /\ i = 2
    /\ cycleCalls = <<"withdrawFromSilo">>
    /\ lastCall.confirmed
    /\ slept = ROTATE_DURATION


\* How far main() has come: the cycle, then the statement within it; the
\* terminal statements rank above every statement of the loop.
Progress ==
    LET inLoop == [loopTest |-> 1, withdrawSilo |-> 2,
                   awaitWithdrawSilo |-> 3, supplyAave |-> 4,
                   awaitSupplyAave |-> 5, hold1 |-> 6, withdrawAave |-> 7,
                   awaitWithdrawAave |-> 8, hold2 |-> 9, depositSilo |-> 10,
                   awaitDepositSilo |-> 11, hold3 |-> 12]
    IN  IF pc \in DOMAIN inLoop THEN 13 * i + inLoop[pc]
        ELSE IF pc = "completed" THEN 13 * (cycles + 1) + 1
        ELSE IF pc = "caught" THEN 13 * (cycles + 1) + 2
        ELSE IF pc = "ended" THEN 13 * (cycles + 1) + 3
        ELSE 0

\* C12: if every adapter call succeeds the rotation ends in Completed after
\* exactly `cycles` cycles: it has issued `cycles` approveAndSupplyToAave,
\* `cycles` withdrawFromAave, `cycles` approveAndDepositToSilo and
\* `cycles` - 1 withdrawFromSilo calls, and then it stops.  Termination is
\* stated as: while no call has failed and the run is not Completed a step
\* is always possible, every step advances the bounded Progress, and no
\* step leaves Completed.
C12_CompletesAfterConfiguredCycles ==
    /\ [](pc = "completed" =>
            /\ i = cycles
            /\ thrown = NoError
            /\ allCalls = [op \in AdapterOps |->
                              IF op = "withdrawFromSilo"
                              THEN cycles - 1 ELSE cycles]
            /\ nSubmitted = 4 * cycles - 1
            /\ inflight = NoTx)
    /\ []((pc # "completed" /\ thrown = NoError) => ENABLED Next)
    /\ [](Progress <= 13 * (cycles + 1) + 3)
    /\ [][Progress' > Progress /\ pc # "completed"]_vars

C12_Witness ==
    /\ pc = "completed"
    /\ mainResult = "resolved"
    /\ allCalls["approveAndDepositToSilo"] = cycles
    /\ allCalls["withdrawFromSilo"] = cycles - 1


\* C13: at most one adapter operation, and at most one submitted
\* transaction, is in flight at any time: a transaction is in flight only
\* while main() awaits the call that submitted it, an adapter call starts
\* only when nothing is in flight and the previous call's submission was
\* confirmed, and a cycle after the first starts only after the previous
\* cycle's deposit to Silo was confirmed.
C13_OneOperationInFlight ==
    /\ inflight # NoTx <=> pc \in AwaitPcs
    /\ pc \in AwaitPcs => inflight = lastCall.tx /\ ~lastCall.confirmed
    /\ pc \in CallPcs =>
          /\ inflight = NoTx
          /\ lastCall.op = "none" \/ lastCall.confirmed
    /\ (pc = "loopTest" /\ i > 0) =>
          /\ inflight = NoTx
          /\ lastCall.op = "approveAndDepositToSilo"
          /\ lastCall.confirmed
    /\ (pc = "withdrawSilo") =>
          lastCall.op = "approveAndDepositToSilo" /\ lastCall.confirmed

C13_Witness ==
    /\ pc = "withdrawSilo"
    /\ i = 1
    /\ inflight = NoTx
    /\ lastCall.op = "approveAndDepositToSilo"
    /\ lastCall.confirmed
    /\ nSubmitted = 3


DepositOps == {"approveAndSupplyToAave", "approveAndDepositToSilo"}

\* C14: when the account's USDC balance cannot be read, the balance guard
\* raises the read's error, which is not the insufficient-funds error: the
\* guard returns no verdict, the deposit operation does not report
\* insufficient funds, and nothing is submitted.
C14_UnreadableBalanceIsAnError ==
    (/\ lastCall.op \in DepositOps
     /\ ~lastCall.env.readOk
     /\ {smartWalletInstance, usdcContract} \subseteq handles) =>
        /\ lastCall.error = ErrBalanceRead
        /\ lastCall.error \notin InsufficientErrors
        /\ ~lastCall.guard.ran
        /\ lastCall.tx = NoTx
        /\ inflight = NoTx
        /\ thrown = ErrBalanceRead

C14_Witness ==
    /\ lastCall.op = "approveAndDepositToSilo"
    /\ ~lastCall.env.readOk
    /\ lastCall.error = ErrBalanceRead
    /\ pc = "ended"
    /\ logged = ErrBalanceRead
    /\ usdcBal > 0


\* AMOUNT * 10^6 in base units: the digits of "1" followed by six zeros.
AmountAtFallback == DigitsToNat(AMOUNT.whole \o Zeros(FALLBACK_DECIMALS))

HandlesUsedBy(op) ==
    IF op = "approveAndSupplyToAave"
    THEN {smartWalletInstance, usdcContract, aaveContract}
    ELSE IF op = "withdrawFromAave"
    THEN {smartWalletInstance, aaveContract}
    ELSE IF op = "approveAndDepositToSilo"
    THEN {smartWalletInstance, usdcContract, siloContract}
    ELSE {smartWalletInstance, siloBusdContract}

\* C15: when the decimals() lookup fails the unit converter does not fail
\* the operation: it returns AMOUNT * 10^6, the guard compares against that
\* value, and the deposit or withdrawal goes on to submit that value.
C15_LookupFailureFallsBackToSix ==
    /\ lastCall.error # ErrConversion
    /\ (lastCall.guard.ran /\ ~lastCall.env.lookup1) =>
          lastCall.guard.required = AmountAtFallback
    /\ (lastCall.tx # NoTx /\ ~lastCall.env.lookup2) =>
          /\ lastCall.tx.steps[1].amount = AmountAtFallback
          /\ lastCall.op = "approveAndSupplyToAave" =>
                lastCall.tx.steps[2].amount = AmountAtFallback
          /\ lastCall.op = "approveAndDepositToSilo" =>
                \A k \in 1..3 :
                    LET c == lastCall.tx.steps[2].data[k]
                    IN  c # EmptyCalldata => c.amount = AmountAtFallback
    /\ (/\ lastCall.op \in DepositOps \cup {"withdrawFromAave"}
        /\ ~lastCall.env.lookup2
        /\ HandlesUsedBy(lastCall.op) \subseteq handles
        /\ lastCall.op \in DepositOps =>
              lastCall.guard.ran /\ lastCall.guard.result) =>
          lastCall.tx # NoTx

C15_Witness ==
    /\ tokenDecimals = 8
    /\ lastCall.op = "withdrawFromAave"
    /\ ~lastCall.env.lookup2
    /\ lastCall.confirmed
    /\ lastCall.tx.steps[1].amount = 1000000
    /\ aavePos = 99000000


\* C16: for every precision P whose lookup succeeds and every amount string
\* with more than P fraction digits, getTokenAmount rejects: it returns no
\* base-unit value, in particular none computed with another precision.
C16_ExcessFractionDigitsRejected ==
    (/\ cpc = "done"
     /\ cLookupOk
     /\ Len(cAmount.whole) + Len(cAmount.frac) > 0
     /\ Len(cAmount.frac) > cDecimals) =>
        ~cResult.ok

\* C16, for the amounts whose fraction digits past P are not all zeros:
\* when the lookup of P succeeds such an amount is rejected, never given a
\* base-unit value (so never one computed with a precision other than P).
C16_SignificantExcessRejected ==
    (/\ cpc = "done"
     /\ cLookupOk
     /\ \E k \in (cDecimals + 1)..Len(cAmount.frac) : cAmount.frac[k] # 0) =>
        ~cResult.ok


NotInitializedErrors ==
    {ErrGuardNotInit, ErrWalletNotInit, ErrUsdcNotInit, ErrAaveNotInit,
     ErrSiloNotInit}

\* C17: in each of the four operations, if the wallet or a contract handle
\* the operation uses is missing, the operation raises a not-initialized
\* error before any balance read or submission; this includes
\* withdrawFromSilo when the bUSDC handle is missing.
C17_MissingHandleRaisesNotInitialized ==
    (/\ lastCall.op \in AdapterOps
     /\ ~(HandlesUsedBy(lastCall.op) \subseteq handles)) =>
        /\ lastCall.error \in NotInitializedErrors
        /\ ~lastCall.guard.ran
        /\ lastCall.sharesRead = -1
        /\ lastCall.tx = NoTx

\* C17, for withdrawFromSilo alone: with the bUSDC handle missing it raises
\* a not-initialized error.
C17_WithdrawFromSiloChecksShareToken ==
    (/\ lastCall.op = "withdrawFromSilo"
     /\ siloBusdContract \notin handles) =>
        lastCall.error \in NotInitializedErrors


GuardFailed == lastCall.guard.ran /\ ~lastCall.guard.result

\* The precisions the required amount may have been converted with: the
\* token's own and the fallback.
ReportPrecisions == {tokenDecimals, FALLBACK_DECIMALS}

C19_TransferFromPullsFromAccount ==
    SiloDepositSubmitted =>
        LET steps == lastCall.tx.steps
            first == steps[2].data[1]
        IN  /\ first.fn = "transferFrom"
            /\ first.from = ACCOUNT
            /\ first.to = SILO
            /\ first.amount = steps[1].amount

\* C19, for the batches whose first inner call was encoded: its source is
\* the account address.
C19_EncodedTransferFromSource ==
    (/\ SiloDepositSubmitted
     /\ lastCall.tx.steps[2].data[1].fn = "transferFrom") =>
        lastCall.tx.steps[2].data[1].from = ACCOUNT

\* C20: in every transaction an operation submits, each beneficiary is the
\* account address: the recipient of the Aave supply, the recipient of the
\* Aave withdrawal, and both the receiver and the owner of the redeem.
C20_BeneficiaryIsTheAccount ==
    lastCall.tx # NoTx =>
        \A k \in 1..Len(lastCall.tx.steps) :
            LET step == lastCall.tx.steps[k]
            IN  /\ step.method = "supply" => step.onBehalfOf = ACCOUNT
                /\ step.method = "withdraw" => step.to = ACCOUNT
                /\ step.method = "redeem" =>
                       (step.receiver = ACCOUNT /\ step.owner = ACCOUNT)

\* Cycle 1 or later, after a supply, an Aave withdrawal and a redeem have
\* each been submitted and the redeem confirmed.
C20_Witness ==
    /\ lastCall.op = "withdrawFromSilo"
    /\ lastCall.confirmed
    /\ lastCall.tx.steps[1].method = "redeem"
    /\ lastCall.tx.steps[1].receiver = ACCOUNT
    /\ allCalls["approveAndSupplyToAave"] > 0
    /\ allCalls["withdrawFromAave"] > 0


DepositSubmitted == lastCall.op \in DepositOps /\ lastCall.tx # NoTx

\* C21: in approveAndSupplyToAave and approveAndDepositToSilo the base-unit
\* amount the balance guard compared against the balance equals the
\* base-unit amount placed in the submitted batch, for every token
\* precision and whichever of the two decimals lookups succeed.
C21_GuardAmountIsBatchAmount ==
    DepositSubmitted =>
        /\ lastCall.guard.ran
        /\ \A k \in 1..Len(lastCall.tx.steps) :
               lastCall.tx.steps[k].method \in {"approve", "supply"} =>
                   lastCall.tx.steps[k].amount = lastCall.guard.required

\* The inner calls of a submitted multicall step.
InnerCalls == lastCall.tx.steps[2].data

\* C22: within every submitted deposit batch all steps carry the same
\* base-unit amount: the approved allowance equals the supplied amount in
\* the Aave batch; the outer approval, the inner transferFrom, the inner
\* approve and the inner deposit carry one amount in the Silo batch.
C22_OneAmountPerBatch ==
    /\ (lastCall.op = "approveAndSupplyToAave" /\ lastCall.tx # NoTx) =>
           lastCall.tx.steps[2].amount = lastCall.tx.steps[1].amount
    /\ SiloDepositSubmitted =>
           \A k \in 1..3 :
               /\ k <= Len(InnerCalls)
               /\ InnerCalls[k].fn # ""
               /\ InnerCalls[k].amount = lastCall.tx.steps[1].amount

\* The part of C22 that holds of every submitted batch: the steps and the
\* inner calls that were encoded all carry the amount of the first step.
C22_EncodedCallsCarryOneAmount ==
    /\ (lastCall.op = "approveAndSupplyToAave" /\ lastCall.tx # NoTx) =>
           lastCall.tx.steps[2].amount = lastCall.tx.steps[1].amount
    /\ SiloDepositSubmitted =>
           \A k \in 1..Len(InnerCalls) :
               InnerCalls[k].fn # "" =>
                   InnerCalls[k].amount = lastCall.tx.steps[1].amount


\* The step issues the adapter operation `op`.
Issues(op) == allCalls'[op] = allCalls[op] + 1

\* The last adapter call was `op`, made in cycle `n`, and it returned
\* successfully.
LastReturned(op, n) ==
    /\ lastCall.op = op
    /\ lastCall.cycle = n
    /\ lastCall.error = NoError
    /\ lastCall.confirmed

\* C23: every unwind follows the successful deposit it unwinds, in failing
\* runs too: withdrawFromAave is issued in cycle N only when the call before
\* it was the approveAndSupplyToAave of cycle N and returned successfully;
\* withdrawFromSilo is issued only in a cycle N > 0 and only when the call
\* before it was the approveAndDepositToSilo of cycle N-1 and returned
\* successfully.
C23_UnwindFollowsItsDeposit ==
    [][/\ Issues("withdrawFromAave") =>
              LastReturned("approveAndSupplyToAave", i)
       /\ Issues("withdrawFromSilo") =>
              (i > 0 /\ LastReturned("approveAndDepositToSilo", i - 1))]_vars

\* A failing run: the unwind of cycle 2 was issued after the deposit of
\* cycle 1, and then failed.
C23_Witness ==
    /\ lastCall.op = "withdrawFromSilo"
    /\ lastCall.cycle = 2
    /\ lastCall.error # NoError
    /\ allCalls["approveAndDepositToSilo"] = 2
    /\ allCalls["withdrawFromAave"] = 2


\* C24: starting with no position in either protocol and with submissions
\* applied atomically, no reachable state has an open Aave position and an
\* open Silo position at once.
C24_AtMostOneOpenPosition == ~(aavePos > 0 /\ siloShares > 0)


\* The part of C24 that holds: for a token of 6 decimals, where a failed
\* lookup changes no amount, the two positions are never open together.
C24_AtMostOneOpenPositionAtSixDecimals ==
    tokenDecimals = FALLBACK_DECIMALS => ~(aavePos > 0 /\ siloShares > 0)


\* C25: a run that reaches Completed ends with approveAndDepositToSilo as
\* its last adapter call, made in the final cycle and never unwound, so on
\* completion the amount that call deposited is held in Silo, as the
\* shares it bought, not in the account.
C25_CompletesHoldingInSilo ==
    pc = "completed" =>
        /\ LastReturned("approveAndDepositToSilo", cycles - 1)
        /\ siloShares = lastCall.tx.steps[1].amount * sharesPerAsset

\* The part of C25 that holds: on completion the last adapter call is the
\* approveAndDepositToSilo of the final cycle, returned successfully, and
\* no withdrawFromSilo follows it.
C25_LastCallIsTheFinalDeposit ==
    pc = "completed" =>
        /\ LastReturned("approveAndDepositToSilo", cycles - 1)
        /\ allCalls["withdrawFromSilo"] = cycles - 1


\* The account's funds wherever they are: with no other writer, and
\* protocols that return what was deposited, this is the initial balance.
AccountFunds ==
    usdcBal + aavePos + routerUsdc + (siloShares \div sharesPerAsset)

\* The rotation amount in base units of the token.
RotationAmount == DigitsToNat(ParseUnits(AMOUNT, tokenDecimals))

\* C26, its safety half: if the initial balance is at least the rotation
\* amount, nothing else writes to the account, the protocols return what
\* was deposited and every submission so far was confirmed, no balance
\* guard fails in any cycle.
C26_GuardNeverFails ==
    AccountFunds >= RotationAmount => ~GuardFailed

\* The part of C26 that holds: for a token of 6 decimals and as long as no
\* deposit has left funds in the router, no balance guard fails.
C26_GuardNeverFailsAtSixDecimals ==
    (/\ AccountFunds >= RotationAmount
     /\ tokenDecimals = FALLBACK_DECIMALS
     /\ routerUsdc = 0) => ~GuardFailed

====
